---- MODULE Spec2Model ----
(***************************************************************************)
(* Producer-consumer over a circular bounded buffer with two semaphores    *)
(* (empty, full), a buffer mutex, a statistics mutex, priority insertion   *)
(* and poison-pill termination: a model of src/producer_consumer.c.        *)
(*                                                                         *)
(* Every thread's position is a program counter.  The statements a thread  *)
(* executes between pthread_mutex_lock(&mutex) and                         *)
(* pthread_mutex_unlock(&mutex) are one step: they read and write only     *)
(* the buffer, which no other thread touches without the mutex.            *)
(* The enqueue_time field of an item and the latencies[] contents are      *)
(* left out: no modelled decision reads them.                              *)
(***************************************************************************)
EXTENDS Integers, Sequences, FiniteSets, TLC

(* ---- bounds of the model ---- *)
MaxThreads == 3        \* num_producers + num_consumers <= MaxThreads, each >= 1
MaxBufferSize == 3     \* buffer_size is drawn from 1..MaxBufferSize
ItemsPerProducer == 2  \* stands for ITEMS_PER_PRODUCER (20 in the source)

(* ---- program constants ---- *)
POISON_PILL == -1
PRIORITY_NORMAL == 0
PRIORITY_URGENT == 1
EXIT_FAILURE == 1

ITEMS_PER_PRODUCER == ItemsPerProducer

(* Threads.  The mutex variables hold the owning thread or NoThread. *)
MainThread == <<"main", 0>>
NoThread == <<"none", 0>>
ProducerThread(p) == <<"producer", p>>
ConsumerThread(c) == <<"consumer", c>>

VARIABLES
    num_producers, num_consumers,
    buffer,                 \* [items, size, count, head, tail]
    empty, full,            \* semaphore values
    mutex, stats_mutex,     \* owner of each mutex, or NoThread
    total_items_produced, total_items_consumed, poison_pills_consumed,
    latency_count,
    ppc, pcount, pitem,     \* producer: position, loop index i, local item
    cpc, citem,             \* consumer: position, local item
    mpc, mi, mitem,         \* main: position, loop index i, local poison item
    args,                   \* the command line: argc and atoi of argv[1..3]
    resources,              \* what the process has acquired and not released
    exit_status,            \* the status passed to exit(), 0 until then
    inserted                \* history: the number of insertions performed so far

vars == <<num_producers, num_consumers, buffer, empty, full, mutex, stats_mutex,
          total_items_produced, total_items_consumed, poison_pills_consumed,
          latency_count, ppc, pcount, pitem, cpc, citem, mpc, mi, mitem,
          args, resources, exit_status, inserted>>

Producers == 1..num_producers
Consumers == 1..num_consumers

(* A slot of the malloc'ed array that was never written.  The code never   *)
(* reads such a slot; the marker carries no priority the scan could match. *)
UninitItem == [value |-> 0, priority |-> -2, seq |-> 0]

(* The value a producer generates: rand_r(&seed) % 1000 + 1 is some value  *)
(* of 1..1000; the model picks a distinct one per (producer, i) so that an *)
(* item can be followed through the buffer.                                *)
RandValue(p, i) == p * 10 + i + 1

PoisonItem == [value |-> POISON_PILL, priority |-> PRIORITY_URGENT, seq |-> 0]

(* History only: seq is not a field of BufferItem.  The insertion stamps   *)
(* the item with its rank among all insertions; no modelled code reads it. *)
Stamped(item) == [item EXCEPT !.seq = inserted + 1]

(* ---- init_buffer ---- *)
InitBuffer(size) ==
    [items |-> [s \in 0..(size - 1) |-> UninitItem],
     size |-> size, count |-> 0, head |-> 0, tail |-> 0]

(* faulty variants of the initial value of empty *)
InitEmptyOneShort(size) == size - 1

InitEmptyOneMore(size) == size + 1

(* sem_init(&empty, 0, size), line 95 *)
InitEmpty(size) == size

(* ---- the priority insertion of insert_item, lines 148-192 ---- *)

(* faulty variant: the scan does not stop at an Urgent item *)
ScanLoopNoBreak(b, i) == b.count

(* the scan loop: the number of Normal items at the end of the queue *)
RECURSIVE ScanLoop(_, _)
ScanLoop(b, i) ==
    IF i < b.count
    THEN LET idx == (b.head + b.count - 1 - i + b.size) % b.size
         IN  IF b.items[idx].priority = PRIORITY_NORMAL
             THEN ScanLoop(b, i + 1)
             ELSE i
    ELSE i

ItemsToShift(b) == ScanLoop(b, 0)

FromIdx(b, i) == (b.tail - 1 - i + b.size) % b.size
ToIdx(b, i) == (b.tail - i + b.size) % b.size

(* faulty variants: no shift at all; the shift copying the item farthest   *)
(* from the tail first                                                     *)
ShiftLoopSkipped(b, items, k, i) == items

RECURSIVE ShiftLoopForward(_, _, _, _)
ShiftLoopForward(b, items, k, i) ==
    IF i < k
    THEN ShiftLoopForward(b, [items EXCEPT ![ToIdx(b, k - 1 - i)] =
                                               items[FromIdx(b, k - 1 - i)]], k, i + 1)
    ELSE items

(* the shift loop: items[to_idx] = items[from_idx] for i = 0 .. k-1 *)
RECURSIVE ShiftLoop(_, _, _, _)
ShiftLoop(b, items, k, i) ==
    IF i < k
    THEN ShiftLoop(b, [items EXCEPT ![ToIdx(b, i)] = items[FromIdx(b, i)]], k, i + 1)
    ELSE items

(* faulty variant: the sentinel is not told apart from an Urgent item *)
TakesUrgentPathNoSentinelTest(item) == item.priority = PRIORITY_URGENT

(* the condition of line 148 *)
TakesUrgentPath(item) ==
    item.priority = PRIORITY_URGENT /\ item.value # POISON_PILL

(* faulty variant: the priority is ignored *)
InsertAtTail(b, item) ==
    [b EXCEPT !.items = [b.items EXCEPT ![b.tail] = item],
              !.tail = (b.tail + 1) % b.size,
              !.count = b.count + 1]

InsertCritical(b, item) ==
    LET k == ItemsToShift(b)
        new_tail == (b.tail + 1) % b.size
    IN  IF TakesUrgentPath(item) /\ k > 0
        THEN LET shifted == ShiftLoop(b, b.items, k, 0)
                 insert_pos == (b.tail - k + b.size) % b.size
             IN  [b EXCEPT !.items = [shifted EXCEPT ![insert_pos] = item],
                           !.tail = new_tail,
                           !.count = b.count + 1]
        ELSE [b EXCEPT !.items = [b.items EXCEPT ![b.tail] = item],
                       !.tail = new_tail,
                       !.count = b.count + 1]

(* ---- the removal of remove_item, lines 215-217 ---- *)

(* faulty variant: the item is taken at the tail end *)
RemovedItemAtTail(b) == b.items[(b.tail - 1 + b.size) % b.size]

RemovedItem(b) == b.items[b.head]

(* faulty variant: head is not advanced *)
RemoveCriticalNoAdvance(b) == [b EXCEPT !.count = b.count - 1]

RemoveCritical(b) ==
    [b EXCEPT !.head = (b.head + 1) % b.size, !.count = b.count - 1]

(* the occupied slots in traversal order from head *)
Contents(b) == [i \in 1..b.count |-> b.items[(b.head + i - 1) % b.size]]

(* what init_buffer and main acquire before the threads are joined *)
BufferResources ==
    {"buffer.items", "empty", "full", "mutex", "stats_mutex", "latencies"}

AllResources == BufferResources \cup {"producer_threads", "consumer_threads"}

(* ---- initial state: after validate_inputs, init_buffer and the creation *)
(* of the threads, none of which has taken a step ---- *)
Init ==
    /\ num_producers \in 1..(MaxThreads - 1)
    /\ num_consumers \in 1..(MaxThreads - num_producers)
    /\ \E size \in 1..MaxBufferSize :
          /\ buffer = InitBuffer(size)
          /\ empty = InitEmpty(size)
    /\ full = 0
    /\ mutex = NoThread
    /\ stats_mutex = NoThread
    /\ total_items_produced = 0
    /\ total_items_consumed = 0
    /\ poison_pills_consumed = 0
    /\ latency_count = 0
    /\ ppc = [p \in Producers |-> "loop"]
    /\ pcount = [p \in Producers |-> 0]
    /\ pitem = [p \in Producers |-> UninitItem]
    /\ cpc = [c \in Consumers |-> "sem_wait"]
    /\ citem = [c \in Consumers |-> UninitItem]
    /\ mpc = "join_producers"
    /\ mi = 0
    /\ mitem = UninitItem
    /\ args = [argc |-> 4, producers |-> num_producers,
               consumers |-> num_consumers, size |-> buffer.size]
    /\ resources = AllResources
    /\ exit_status = 0
    /\ inserted = 0

processVars == <<args, resources, exit_status>>
configVars == <<num_producers, num_consumers, processVars>>
statsVars == <<stats_mutex, total_items_produced, total_items_consumed,
               poison_pills_consumed, latency_count>>
producerVars == <<ppc, pcount, pitem>>
consumerVars == <<cpc, citem>>
mainVars == <<mpc, mi, mitem>>
queueVars == <<buffer, empty, full, mutex, inserted>>

(* ---- producer, lines 232-265 ---- *)

(* lines 239-247: build the next item *)
ProducerMakeItem(p) ==
    /\ ppc[p] = "loop"
    /\ pcount[p] < ITEMS_PER_PRODUCER
    /\ \E prio \in {PRIORITY_NORMAL, PRIORITY_URGENT} :
          pitem' = [pitem EXCEPT ![p] = [value |-> RandValue(p, pcount[p]),
                                         priority |-> prio, seq |-> 0]]
    /\ ppc' = [ppc EXCEPT ![p] = "sem_wait"]
    /\ UNCHANGED <<configVars, statsVars, pcount, consumerVars, mainVars, queueVars>>

(* insert_item line 143: sem_wait(&empty) *)
ProducerSemWait(p) ==
    /\ ppc[p] = "sem_wait"
    /\ empty > 0
    /\ empty' = empty - 1
    /\ ppc' = [ppc EXCEPT ![p] = "lock"]
    /\ UNCHANGED <<configVars, statsVars, pcount, pitem, consumerVars, mainVars,
                   buffer, full, mutex, inserted>>

(* faulty variant: the lock does not wait for the owner *)
ProducerLockNoWait(p) ==
    /\ ppc[p] = "lock"
    /\ mutex' = ProducerThread(p)
    /\ ppc' = [ppc EXCEPT ![p] = "cs"]
    /\ UNCHANGED <<configVars, statsVars, pcount, pitem, consumerVars, mainVars,
                   buffer, empty, full, inserted>>

(* insert_item line 146: pthread_mutex_lock(&mutex) *)
ProducerLock(p) ==
    /\ ppc[p] = "lock"
    /\ mutex = NoThread
    /\ mutex' = ProducerThread(p)
    /\ ppc' = [ppc EXCEPT ![p] = "cs"]
    /\ UNCHANGED <<configVars, statsVars, pcount, pitem, consumerVars, mainVars,
                   buffer, empty, full, inserted>>

(* insert_item lines 148-195: the insertion and pthread_mutex_unlock *)
ProducerInsert(p) ==
    /\ ppc[p] = "cs"
    /\ buffer' = InsertCritical(buffer, Stamped(pitem[p]))
    /\ inserted' = inserted + 1
    /\ mutex' = NoThread
    /\ ppc' = [ppc EXCEPT ![p] = "post"]
    /\ UNCHANGED <<configVars, statsVars, pcount, pitem, consumerVars, mainVars,
                   empty, full>>

(* insert_item line 198: sem_post(&full) *)
ProducerSemPost(p) ==
    /\ ppc[p] = "post"
    /\ full' = full + 1
    /\ ppc' = [ppc EXCEPT ![p] = "stats_lock"]
    /\ UNCHANGED <<configVars, statsVars, pcount, pitem, consumerVars, mainVars,
                   buffer, empty, mutex, inserted>>

(* line 253: pthread_mutex_lock(&stats_mutex) *)
ProducerStatsLock(p) ==
    /\ ppc[p] = "stats_lock"
    /\ stats_mutex = NoThread
    /\ stats_mutex' = ProducerThread(p)
    /\ ppc' = [ppc EXCEPT ![p] = "stats_cs"]
    /\ UNCHANGED <<configVars, total_items_produced, total_items_consumed,
                   poison_pills_consumed, latency_count, pcount, pitem,
                   consumerVars, mainVars, queueVars>>

(* faulty variant: stats_mutex is not unlocked *)
ProducerStatsUpdateNoUnlock(p) ==
    /\ ppc[p] = "stats_cs"
    /\ total_items_produced' = total_items_produced + 1
    /\ pcount' = [pcount EXCEPT ![p] = pcount[p] + 1]
    /\ pitem' = [pitem EXCEPT ![p] = UninitItem]
    /\ ppc' = [ppc EXCEPT ![p] = "loop"]
    /\ UNCHANGED <<configVars, stats_mutex, total_items_consumed,
                   poison_pills_consumed, latency_count, consumerVars, mainVars,
                   queueVars>>

(* lines 254-261 and the loop increment; the local item declared in the   *)
(* loop body ends its lifetime with the iteration                          *)
ProducerStatsUpdate(p) ==
    /\ ppc[p] = "stats_cs"
    /\ total_items_produced' = total_items_produced + 1
    /\ stats_mutex' = NoThread
    /\ pcount' = [pcount EXCEPT ![p] = pcount[p] + 1]
    /\ pitem' = [pitem EXCEPT ![p] = UninitItem]
    /\ ppc' = [ppc EXCEPT ![p] = "loop"]
    /\ UNCHANGED <<configVars, total_items_consumed, poison_pills_consumed,
                   latency_count, consumerVars, mainVars, queueVars>>

(* lines 263-264: the loop ends, pthread_exit *)
ProducerExit(p) ==
    /\ ppc[p] = "loop"
    /\ pcount[p] >= ITEMS_PER_PRODUCER
    /\ ppc' = [ppc EXCEPT ![p] = "done"]
    /\ UNCHANGED <<configVars, statsVars, pcount, pitem, consumerVars, mainVars,
                   queueVars>>

(* ---- consumer, lines 271-309 ---- *)

(* faulty variant: the mutex is locked before the wait on full *)
ConsumerLockBeforeWait(c) ==
    /\ cpc[c] = "sem_wait"
    /\ mutex = NoThread
    /\ mutex' = ConsumerThread(c)
    /\ UNCHANGED <<configVars, statsVars, producerVars, consumerVars, mainVars,
                   buffer, empty, full, inserted>>

(* remove_item line 209: sem_wait(&full) *)
ConsumerSemWait(c) ==
    /\ cpc[c] = "sem_wait"
    /\ full > 0
    /\ full' = full - 1
    /\ cpc' = [cpc EXCEPT ![c] = "lock"]
    /\ UNCHANGED <<configVars, statsVars, producerVars, citem, mainVars,
                   buffer, empty, mutex, inserted>>

(* remove_item line 212: pthread_mutex_lock(&mutex) *)
ConsumerLock(c) ==
    /\ cpc[c] = "lock"
    /\ mutex = NoThread
    /\ mutex' = ConsumerThread(c)
    /\ cpc' = [cpc EXCEPT ![c] = "cs"]
    /\ UNCHANGED <<configVars, statsVars, producerVars, citem, mainVars,
                   buffer, empty, full, inserted>>

(* remove_item lines 215-220: the removal and pthread_mutex_unlock *)
ConsumerRemove(c) ==
    /\ cpc[c] = "cs"
    /\ citem' = [citem EXCEPT ![c] = RemovedItem(buffer)]
    /\ buffer' = RemoveCritical(buffer)
    /\ inserted' = inserted
    /\ mutex' = NoThread
    /\ cpc' = [cpc EXCEPT ![c] = "post"]
    /\ UNCHANGED <<configVars, statsVars, producerVars, mainVars, empty, full>>

(* remove_item line 223: sem_post(&empty), return item *)
ConsumerSemPost(c) ==
    /\ cpc[c] = "post"
    /\ empty' = empty + 1
    /\ cpc' = [cpc EXCEPT ![c] = "stats_lock"]
    /\ UNCHANGED <<configVars, statsVars, producerVars, citem, mainVars,
                   buffer, full, mutex, inserted>>

(* lines 281 and 295: pthread_mutex_lock(&stats_mutex), on either branch *)
ConsumerStatsLock(c) ==
    /\ cpc[c] = "stats_lock"
    /\ stats_mutex = NoThread
    /\ stats_mutex' = ConsumerThread(c)
    /\ cpc' = [cpc EXCEPT ![c] = "stats_cs"]
    /\ UNCHANGED <<configVars, total_items_produced, total_items_consumed,
                   poison_pills_consumed, latency_count, producerVars, citem,
                   mainVars, queueVars>>

(* faulty variant: the sentinel is never recognised *)
IsPoisonNever(item) == FALSE

(* the test of line 280 *)
IsPoison(item) == item.value = POISON_PILL

(* lines 280-287: a poison pill: count it, break, pthread_exit; the local  *)
(* item declared in the loop body ends its lifetime                        *)
ConsumerPoison(c) ==
    /\ cpc[c] = "stats_cs"
    /\ IsPoison(citem[c])
    /\ poison_pills_consumed' = poison_pills_consumed + 1
    /\ stats_mutex' = NoThread
    /\ citem' = [citem EXCEPT ![c] = UninitItem]
    /\ cpc' = [cpc EXCEPT ![c] = "done"]
    /\ UNCHANGED <<configVars, total_items_produced, total_items_consumed,
                   latency_count, producerVars, mainVars, queueVars>>

(* lines 289-305: an ordinary item: record the latency, count it, loop;   *)
(* the local item ends its lifetime with the iteration                     *)
ConsumerStatsUpdate(c) ==
    /\ cpc[c] = "stats_cs"
    /\ ~IsPoison(citem[c])
    /\ latency_count' = latency_count + 1
    /\ total_items_consumed' = total_items_consumed + 1
    /\ stats_mutex' = NoThread
    /\ citem' = [citem EXCEPT ![c] = UninitItem]
    /\ cpc' = [cpc EXCEPT ![c] = "sem_wait"]
    /\ UNCHANGED <<configVars, total_items_produced, poison_pills_consumed,
                   producerVars, mainVars, queueVars>>

(* ---- main, lines 438-474 ---- *)

(* faulty variant: the producer is not waited for *)
MainJoinProducerNoWait ==
    /\ mpc = "join_producers"
    /\ mi < num_producers
    /\ mi' = mi + 1
    /\ UNCHANGED <<configVars, statsVars, producerVars, consumerVars, mpc, mitem,
                   queueVars>>

(* lines 440-442: pthread_join(producer_threads[i]) *)
MainJoinProducer ==
    /\ mpc = "join_producers"
    /\ mi < num_producers
    /\ ppc[mi + 1] = "done"
    /\ mi' = mi + 1
    /\ UNCHANGED <<configVars, statsVars, producerVars, consumerVars, mpc, mitem,
                   queueVars>>

MainProducersJoined ==
    /\ mpc = "join_producers"
    /\ mi >= num_producers
    /\ mpc' = "pill_loop"
    /\ mi' = 0
    /\ UNCHANGED <<configVars, statsVars, producerVars, consumerVars, mitem,
                   queueVars>>

(* faulty variants of the number of poison pills *)
PillsToInsertOneShort == num_consumers - 1

PillsToInsertOneMore == num_consumers + 1

(* the number of poison pills main inserts, line 447 *)
PillsToInsert == num_consumers

(* lines 447-451: build a poison pill *)
MainMakePoison ==
    /\ mpc = "pill_loop"
    /\ mi < PillsToInsert
    /\ mitem' = PoisonItem
    /\ mpc' = "sem_wait"
    /\ UNCHANGED <<configVars, statsVars, producerVars, consumerVars, mi, queueVars>>

MainSemWait ==
    /\ mpc = "sem_wait"
    /\ empty > 0
    /\ empty' = empty - 1
    /\ mpc' = "lock"
    /\ UNCHANGED <<configVars, statsVars, producerVars, consumerVars, mi, mitem,
                   buffer, full, mutex, inserted>>

MainLock ==
    /\ mpc = "lock"
    /\ mutex = NoThread
    /\ mutex' = MainThread
    /\ mpc' = "cs"
    /\ UNCHANGED <<configVars, statsVars, producerVars, consumerVars, mi, mitem,
                   buffer, empty, full, inserted>>

MainInsert ==
    /\ mpc = "cs"
    /\ buffer' = InsertCritical(buffer, Stamped(mitem))
    /\ inserted' = inserted + 1
    /\ mutex' = NoThread
    /\ mpc' = "post"
    /\ UNCHANGED <<configVars, statsVars, producerVars, consumerVars, mi, mitem,
                   empty, full>>

MainSemPost ==
    /\ mpc = "post"
    /\ full' = full + 1
    /\ mi' = mi + 1
    /\ mitem' = UninitItem
    /\ mpc' = "pill_loop"
    /\ UNCHANGED <<configVars, statsVars, producerVars, consumerVars,
                   buffer, empty, mutex, inserted>>

MainPillsInserted ==
    /\ mpc = "pill_loop"
    /\ mi >= PillsToInsert
    /\ mpc' = "join_consumers"
    /\ mi' = 0
    /\ UNCHANGED <<configVars, statsVars, producerVars, consumerVars, mitem,
                   queueVars>>

(* lines 457-459: pthread_join(consumer_threads[i]) *)
MainJoinConsumer ==
    /\ mpc = "join_consumers"
    /\ mi < num_consumers
    /\ cpc[mi + 1] = "done"
    /\ mi' = mi + 1
    /\ UNCHANGED <<configVars, statsVars, producerVars, consumerVars, mpc, mitem,
                   queueVars>>

(* lines 460-474: metrics, free of the thread arrays, destroy_buffer,      *)
(* return 0                                                                *)
MainFinish ==
    /\ mpc = "join_consumers"
    /\ mi >= num_consumers
    /\ mpc' = "done"
    /\ resources' = resources \ AllResources
    /\ UNCHANGED <<num_producers, num_consumers, args, exit_status, statsVars,
                   producerVars, consumerVars, mi, mitem, queueVars>>

ProducerStep(p) ==
    \/ ProducerMakeItem(p)
    \/ ProducerSemWait(p)
    \/ ProducerLock(p)
    \/ ProducerInsert(p)
    \/ ProducerSemPost(p)
    \/ ProducerStatsLock(p)
    \/ ProducerStatsUpdate(p)
    \/ ProducerExit(p)

ConsumerStep(c) ==
    \/ ConsumerSemWait(c)
    \/ ConsumerLock(c)
    \/ ConsumerRemove(c)
    \/ ConsumerSemPost(c)
    \/ ConsumerStatsLock(c)
    \/ ConsumerPoison(c)
    \/ ConsumerStatsUpdate(c)

MainStep ==
    \/ MainJoinProducer
    \/ MainProducersJoined
    \/ MainMakePoison
    \/ MainSemWait
    \/ MainLock
    \/ MainInsert
    \/ MainSemPost
    \/ MainPillsInserted
    \/ MainJoinConsumer
    \/ MainFinish

Next ==
    \/ \E p \in Producers : ProducerStep(p)
    \/ \E c \in Consumers : ConsumerStep(c)
    \/ MainStep

Spec == Init /\ [][Next]_vars

(* The scheduler runs some runnable thread whenever there is one. *)
FairSpec == Spec /\ WF_vars(Next)

(* ---- the start of main, lines 382-436 ---- *)

(* faulty variant: the consumer count is not tested *)
InvalidInputsNoConsumerTest(a) == a.producers <= 0 \/ a.size <= 0

(* the three tests of validate_inputs, lines 358-371 *)
InvalidInputs(a) == a.producers <= 0 \/ a.consumers <= 0 \/ a.size <= 0

(* exit(EXIT_FAILURE): the process ends where it stands *)
ExitFailure ==
    /\ mpc' = "exited"
    /\ exit_status' = EXIT_FAILURE

startFrame == <<statsVars, mitem, mutex, inserted>>

(* validate_inputs, lines 346-351: the wrong number of arguments *)
ValidateUsage ==
    /\ mpc = "validate"
    /\ args.argc # 4
    /\ ExitFailure
    /\ UNCHANGED <<num_producers, num_consumers, args, resources, producerVars,
                   consumerVars, mi, buffer, empty, full, startFrame>>

(* validate_inputs, lines 353-377: the globals are set, then tested *)
ValidateInputs ==
    /\ mpc = "validate"
    /\ args.argc = 4
    /\ num_producers' = args.producers
    /\ num_consumers' = args.consumers
    /\ ppc' = [p \in 1..args.producers |-> "unborn"]
    /\ pcount' = [p \in 1..args.producers |-> 0]
    /\ pitem' = [p \in 1..args.producers |-> UninitItem]
    /\ cpc' = [c \in 1..args.consumers |-> "unborn"]
    /\ citem' = [c \in 1..args.consumers |-> UninitItem]
    /\ IF InvalidInputs(args)
       THEN ExitFailure
       ELSE mpc' = "init_items" /\ exit_status' = exit_status
    /\ UNCHANGED <<args, resources, mi, buffer, empty, full, startFrame>>

(* a step of the start-up that acquires res and goes on, and its failure *)
Acquire(from, to, res) ==
    /\ mpc = from
    /\ mpc' = to
    /\ resources' = resources \cup {res}
    /\ UNCHANGED <<num_producers, num_consumers, args, exit_status,
                   producerVars, consumerVars, mi, startFrame>>

AcquireFails(from) ==
    /\ mpc = from
    /\ ExitFailure
    /\ UNCHANGED <<num_producers, num_consumers, args, resources, producerVars,
                   consumerVars, mi, buffer, empty, full, startFrame>>

(* init_buffer, lines 83-92 *)
InitItems ==
    /\ Acquire("init_items", "init_empty", "buffer.items")
    /\ buffer' = InitBuffer(args.size)
    /\ UNCHANGED <<empty, full>>

InitItemsFails == AcquireFails("init_items")

(* init_buffer, lines 95-98 *)
InitSemEmpty ==
    /\ Acquire("init_empty", "init_full", "empty")
    /\ empty' = InitEmpty(args.size)
    /\ UNCHANGED <<buffer, full>>

InitSemEmptyFails == AcquireFails("init_empty")

(* init_buffer, lines 100-103 *)
InitSemFull ==
    /\ Acquire("init_full", "init_mutex", "full")
    /\ full' = 0
    /\ UNCHANGED <<buffer, empty>>

InitSemFullFails == AcquireFails("init_full")

(* init_buffer, lines 106-109 *)
InitMutex ==
    /\ Acquire("init_mutex", "init_stats_mutex", "mutex")
    /\ UNCHANGED <<buffer, empty, full>>

InitMutexFails == AcquireFails("init_mutex")

(* init_buffer, lines 111-114 *)
InitStatsMutex ==
    /\ Acquire("init_stats_mutex", "init_latencies", "stats_mutex")
    /\ UNCHANGED <<buffer, empty, full>>

InitStatsMutexFails == AcquireFails("init_stats_mutex")

(* init_buffer, lines 117-122 *)
InitLatencies ==
    /\ Acquire("init_latencies", "alloc_producer_threads", "latencies")
    /\ UNCHANGED <<buffer, empty, full>>

InitLatenciesFails == AcquireFails("init_latencies")

(* main, lines 395-399 *)
AllocProducerThreads ==
    /\ Acquire("alloc_producer_threads", "create_producers", "producer_threads")
    /\ UNCHANGED <<buffer, empty, full>>

AllocProducerThreadsFails == AcquireFails("alloc_producer_threads")

(* main, lines 402-414: the id is handed to the new thread, which frees it *)
CreateProducer ==
    /\ mpc = "create_producers"
    /\ mi < num_producers
    /\ ppc' = [ppc EXCEPT ![mi + 1] = "loop"]
    /\ mi' = mi + 1
    /\ UNCHANGED <<configVars, statsVars, pcount, pitem, consumerVars, mpc, mitem,
                   queueVars>>

(* lines 403-407: malloc of the id fails *)
ProducerIdFails ==
    /\ mi < num_producers
    /\ AcquireFails("create_producers")

(* lines 410-413: pthread_create fails, the id stays allocated *)
CreateProducerFails ==
    /\ mpc = "create_producers"
    /\ mi < num_producers
    /\ ExitFailure
    /\ resources' = resources \cup {"producer_id"}
    /\ UNCHANGED <<num_producers, num_consumers, args, producerVars,
                   consumerVars, mi, buffer, empty, full, startFrame>>

(* main, lines 417-421 *)
AllocConsumerThreads ==
    /\ mpc = "create_producers"
    /\ mi >= num_producers
    /\ mpc' = "create_consumers"
    /\ mi' = 0
    /\ resources' = resources \cup {"consumer_threads"}
    /\ UNCHANGED <<num_producers, num_consumers, args, exit_status, statsVars,
                   producerVars, consumerVars, mitem, queueVars>>

AllocConsumerThreadsFails ==
    /\ mi >= num_producers
    /\ AcquireFails("create_producers")

(* main, lines 424-436 *)
CreateConsumer ==
    /\ mpc = "create_consumers"
    /\ mi < num_consumers
    /\ cpc' = [cpc EXCEPT ![mi + 1] = "sem_wait"]
    /\ mi' = mi + 1
    /\ UNCHANGED <<configVars, statsVars, producerVars, citem, mpc, mitem,
                   queueVars>>

ConsumerIdFails ==
    /\ mi < num_consumers
    /\ AcquireFails("create_consumers")

CreateConsumerFails ==
    /\ mpc = "create_consumers"
    /\ mi < num_consumers
    /\ ExitFailure
    /\ resources' = resources \cup {"consumer_id"}
    /\ UNCHANGED <<num_producers, num_consumers, args, producerVars,
                   consumerVars, mi, buffer, empty, full, startFrame>>

(* main, lines 438-439: all threads created *)
ThreadsCreated ==
    /\ mpc = "create_consumers"
    /\ mi >= num_consumers
    /\ mpc' = "join_producers"
    /\ mi' = 0
    /\ UNCHANGED <<configVars, statsVars, producerVars, consumerVars, mitem,
                   queueVars>>

StartStep ==
    \/ ValidateUsage
    \/ ValidateInputs
    \/ InitItems
    \/ InitItemsFails
    \/ InitSemEmpty
    \/ InitSemEmptyFails
    \/ InitSemFull
    \/ InitSemFullFails
    \/ InitMutex
    \/ InitMutexFails
    \/ InitStatsMutex
    \/ InitStatsMutexFails
    \/ InitLatencies
    \/ InitLatenciesFails
    \/ AllocProducerThreads
    \/ AllocProducerThreadsFails
    \/ CreateProducer
    \/ ProducerIdFails
    \/ CreateProducerFails
    \/ AllocConsumerThreads
    \/ AllocConsumerThreadsFails
    \/ CreateConsumer
    \/ ConsumerIdFails
    \/ CreateConsumerFails
    \/ ThreadsCreated

(* the command lines tried: any count from -1 up, the positive ones within *)
(* the bounds of the model                                                 *)
CommandLines ==
    {a \in [argc : {3, 4},
            producers : -1..(MaxThreads - 1),
            consumers : -1..(MaxThreads - 1),
            size : -1..MaxBufferSize] :
        (a.producers > 0 /\ a.consumers > 0) =>
            a.producers + a.consumers <= MaxThreads}

(* the state at the entry of main: the globals are zero *)
StartInit ==
    /\ args \in CommandLines
    /\ num_producers = 0
    /\ num_consumers = 0
    /\ buffer = InitBuffer(0)
    /\ empty = 0
    /\ full = 0
    /\ mutex = NoThread
    /\ stats_mutex = NoThread
    /\ total_items_produced = 0
    /\ total_items_consumed = 0
    /\ poison_pills_consumed = 0
    /\ latency_count = 0
    /\ ppc = <<>>
    /\ pcount = <<>>
    /\ pitem = <<>>
    /\ cpc = <<>>
    /\ citem = <<>>
    /\ mpc = "validate"
    /\ mi = 0
    /\ mitem = UninitItem
    /\ resources = {}
    /\ exit_status = 0
    /\ inserted = 0

(* exit() ends every thread of the process *)
StartNext ==
    \/ StartStep
    \/ (mpc # "exited" /\ Next)

(* the whole program, from the entry of main *)
StartSpec == StartInit /\ [][StartNext]_vars

SpawnedThreads ==
    {ProducerThread(p) : p \in {q \in Producers : ppc[q] # "unborn"}}
        \cup {ConsumerThread(c) : c \in {d \in Consumers : cpc[d] # "unborn"}}

LiveThreads ==
    {ProducerThread(p) : p \in {q \in Producers : ppc[q] \notin {"unborn", "done"}}}
        \cup {ConsumerThread(c) :
                 c \in {d \in Consumers : cpc[d] \notin {"unborn", "done"}}}

(* ---- thread positions used by the properties ---- *)
AllProducersDone == \A p \in Producers : ppc[p] = "done"
AllConsumersDone == \A c \in Consumers : cpc[c] = "done"
AllTerminated == AllProducersDone /\ AllConsumersDone /\ mpc = "done"

(* C1: conservation.  When every thread has terminated, the number of      *)
(* non-sentinel items dequeued equals P*K and equals the number produced,  *)
(* and exactly C poison pills have been observed.                          *)
C1_Conservation ==
    AllTerminated =>
        /\ total_items_consumed = num_producers * ITEMS_PER_PRODUCER
        /\ total_items_consumed = total_items_produced
        /\ poison_pills_consumed = num_consumers

C1_Witness ==
    /\ AllTerminated
    /\ num_producers > 1
    /\ total_items_consumed = num_producers * ITEMS_PER_PRODUCER
    /\ poison_pills_consumed = num_consumers

(* C2: deadlock freedom.  Under a scheduler that runs some runnable thread *)
(* whenever there is one, every producer, every consumer and main          *)
(* eventually terminate: no execution stops with a thread blocked.         *)
C2_Termination == <>AllTerminated

C2_Witness ==
    /\ AllTerminated
    /\ buffer.size = 1
    /\ num_consumers > 1

(* ---- helpers of the properties ---- *)
(* the positions between a sem_wait and the matching sem_post *)
QueueOpPositions == {"lock", "cs", "post"}

(* threads that hold a token of empty and have not yet posted full *)
InFlightInserters ==
    Cardinality({p \in Producers : ppc[p] \in QueueOpPositions})
        + (IF mpc \in QueueOpPositions THEN 1 ELSE 0)

(* threads that hold a token of full and have not yet posted empty *)
InFlightRemovers == Cardinality({c \in Consumers : cpc[c] \in QueueOpPositions})

IsUrgent(x) == x.priority = PRIORITY_URGENT
IsNormal(x) == x.priority = PRIORITY_NORMAL

UrgentRun(c) == SelectSeq(c, IsUrgent)
NormalRun(c) == SelectSeq(c, IsNormal)

ProducerInsertStep(p) == ppc[p] = "cs" /\ ppc'[p] = "post"
MainInsertStep == mpc = "cs" /\ mpc' = "post"
ConsumerRemoveStep(c) == cpc[c] = "cs" /\ cpc'[c] = "post"

Occupied(b, idx) == \E n \in 0..(b.count - 1) : idx = (b.head + n) % b.size

(* C3 as stated: whenever no thread is inside the mutex-guarded critical   *)
(* section, 0 <= count <= size and empty + full = size.                    *)
C3_Original ==
    mutex = NoThread =>
        /\ 0 <= buffer.count /\ buffer.count <= buffer.size
        /\ empty + full = buffer.size

(* C3 amended: in every state 0 <= count <= size, and empty + full equals  *)
(* size minus the number of threads between their sem_wait and the         *)
(* matching sem_post; so empty + full = size whenever no thread is between *)
(* the two.                                                                *)
C3_CapacityInvariant ==
    /\ 0 <= buffer.count /\ buffer.count <= buffer.size
    /\ empty >= 0 /\ full >= 0
    /\ empty + full + InFlightInserters + InFlightRemovers = buffer.size

C3_Witness ==
    /\ InFlightInserters = 0 /\ InFlightRemovers = 0
    /\ buffer.size = MaxBufferSize
    /\ full = buffer.size /\ empty = 0
    /\ buffer.count = buffer.size

C6_PriorityInsertion ==
    [][/\ \A p \in Producers :
            ProducerInsertStep(p) =>
                LET c == Contents(buffer)
                    Us == UrgentRun(c)
                    Ns == NormalRun(c)
                    it == Stamped(pitem[p])
                IN  c = Us \o Ns =>
                        IF IsUrgent(it)
                        THEN Contents(buffer') = Us \o <<it>> \o Ns
                        ELSE Contents(buffer') = Us \o Ns \o <<it>>
       /\ \A c \in Consumers :
            ConsumerRemoveStep(c) =>
                /\ citem'[c] = Head(Contents(buffer))
                /\ Contents(buffer') = Tail(Contents(buffer))]_vars

(* [N1, N2] plus urgent U has become [U, N1, N2] *)
C6_Witness ==
    /\ buffer.count = 3
    /\ LET c == Contents(buffer)
       IN  /\ TakesUrgentPath(c[1]) /\ c[1].seq = 3
           /\ IsNormal(c[2]) /\ c[2].seq = 1
           /\ IsNormal(c[3]) /\ c[3].seq = 2

(* C7: FIFO within a priority class.  When an item is removed, no item of  *)
(* the same priority that was inserted before it is still in the buffer.   *)
C7_FifoWithinClass ==
    [][\A c \in Consumers :
          ConsumerRemoveStep(c) =>
              LET rest == Contents(buffer')
              IN  \A i \in 1..Len(rest) :
                      rest[i].priority = citem'[c].priority =>
                          rest[i].seq > citem'[c].seq]_vars

(* an Urgent item removed while a later Urgent item, which overtook an     *)
(* older Normal item, is still queued                                      *)
C7_Witness ==
    \E c \in Consumers :
        /\ cpc[c] = "post"
        /\ TakesUrgentPath(citem[c])
        /\ buffer.count >= 2
        /\ LET rest == Contents(buffer)
           IN  /\ TakesUrgentPath(rest[1]) /\ rest[1].seq > citem[c].seq
               /\ IsNormal(rest[2]) /\ rest[2].seq < rest[1].seq

(* what the insertion of item it into b writes: the slot at tail is free,  *)
(* every slot the shift loop writes is free or was copied by an earlier    *)
(* iteration, and the slot the item goes to was copied by the last one     *)
InsertionSafe(b, it) ==
    LET k == ItemsToShift(b)
    IN  /\ b.count < b.size
        /\ ~Occupied(b, b.tail)
        /\ (TakesUrgentPath(it) /\ k > 0) =>
              /\ \A i \in 0..(k - 1) :
                    \/ ~Occupied(b, ToIdx(b, i))
                    \/ \E j \in 0..(i - 1) : ToIdx(b, i) = FromIdx(b, j)
              /\ (b.tail - k + b.size) % b.size = FromIdx(b, k - 1)

(* C8: no storage overrun.  Whenever a thread is at the insertion step of  *)
(* insert_item, count < size, so the slot at tail and every slot the shift *)
(* loop writes is unoccupied or already copied.                            *)
C8_NoStorageOverrun ==
    /\ \A p \in Producers : ppc[p] = "cs" => InsertionSafe(buffer, pitem[p])
    /\ mpc = "cs" => InsertionSafe(buffer, mitem)

(* an urgent insertion about to shift two items into the last free slot *)
C8_Witness ==
    \E p \in Producers :
        /\ ppc[p] = "cs"
        /\ TakesUrgentPath(pitem[p])
        /\ buffer.count = buffer.size - 1
        /\ ItemsToShift(buffer) = 2
        /\ buffer.tail = 0

InserterPastSemWait ==
    \/ \E p \in Producers : ppc[p] \in {"lock", "cs"}
    \/ mpc \in {"lock", "cs"}

FullOfTwo == buffer.count = 2 => (empty = 0 /\ ~InserterPastSemWait)

(* C9: the capacity-2 scenario.  With capacity 2 and two items stored the  *)
(* empty semaphore is 0 and no inserter is past sem_wait; a removal        *)
(* returns the first item of the logical order; the insertion of an Urgent *)
(* U into [N2], N2 Normal, gives [U, N2], N2 moving to the slot at the old *)
(* tail around the end of the array; removals then return U, then N2.      *)
C9_CapacityTwoScenario ==
    [][buffer.size = 2 =>
          /\ FullOfTwo
          /\ FullOfTwo'
          /\ \A c \in Consumers :
                ConsumerRemoveStep(c) =>
                    /\ citem'[c] = Head(Contents(buffer))
                    /\ Contents(buffer') = Tail(Contents(buffer))
          /\ \A p \in Producers :
                (/\ ProducerInsertStep(p)
                 /\ TakesUrgentPath(pitem[p])
                 /\ buffer.count = 1
                 /\ IsNormal(Contents(buffer)[1])) =>
                    /\ Contents(buffer') =
                          <<Stamped(pitem[p]), Contents(buffer)[1]>>
                    /\ buffer'.items[buffer.tail] = Contents(buffer)[1]
                    /\ buffer'.items[buffer.head] = Stamped(pitem[p])]_vars

(* N1, N2, U were inserted in this order, N1 is gone, and U sits at index  *)
(* 1 ahead of N2, which wrapped to index 0                                 *)
C9_Witness ==
    /\ buffer.size = 2
    /\ inserted = 3
    /\ buffer.count = 2
    /\ buffer.head = 1
    /\ TakesUrgentPath(buffer.items[1]) /\ buffer.items[1].seq = 3
    /\ IsNormal(buffer.items[0]) /\ buffer.items[0].seq = 2

PillsInBuffer ==
    Cardinality({i \in 1..buffer.count : IsPoison(Contents(buffer)[i])})

PillsHeld == Cardinality({c \in Consumers : IsPoison(citem[c])})

ConsumersDone == Cardinality({c \in Consumers : cpc[c] = "done"})

(* C10: shutdown handshake.  Main enqueues exactly C poison pills; every   *)
(* pill a consumer dequeues ends that consumer, which touches the queue no *)
(* more; there are exactly C termination events and no pill is left once   *)
(* all consumers have exited.                                              *)
C10_ShutdownHandshake ==
    /\ PillsInBuffer + PillsHeld + poison_pills_consumed <= num_consumers
    /\ mpc \in {"join_consumers", "done"} =>
          PillsInBuffer + PillsHeld + poison_pills_consumed = num_consumers
    /\ poison_pills_consumed = ConsumersDone
    /\ \A c \in Consumers :
          IsPoison(citem[c]) => cpc[c] \in {"post", "stats_lock", "stats_cs"}
    /\ AllConsumersDone =>
          /\ PillsInBuffer = 0
          /\ buffer.count = 0
          /\ poison_pills_consumed = num_consumers

C10_Witness ==
    /\ AllConsumersDone
    /\ num_consumers = 2
    /\ poison_pills_consumed = 2
    /\ mpc = "done"

NothingAcquired ==
    /\ resources = {}
    /\ SpawnedThreads = {}
    /\ buffer = InitBuffer(0)
    /\ empty = 0 /\ full = 0

(* C11: configuration error.  With a producer count, a consumer count or a *)
(* buffer size <= 0 on the command line, the program never gets past       *)
(* validate_inputs: it exits with a non-zero status, init_buffer has not   *)
(* run, no thread exists and nothing is allocated.                         *)
C11_ConfigurationError ==
    (args.argc = 4 /\ (args.producers <= 0 \/ args.consumers <= 0 \/ args.size <= 0)) =>
        /\ mpc \in {"validate", "exited"}
        /\ mpc = "exited" => exit_status # 0
        /\ NothingAcquired

C11_Witness ==
    /\ mpc = "exited"
    /\ exit_status = EXIT_FAILURE
    /\ args.argc = 4
    /\ args.producers > 0 /\ args.consumers = 0 /\ args.size > 0
    /\ NothingAcquired

(* C12 as stated: when an allocation or a thread creation fails, every     *)
(* resource already acquired has been released and every thread already    *)
(* spawned has terminated before the process exits.                        *)
C12_CleanupOnFailure ==
    mpc = "exited" =>
        /\ resources = {}
        /\ LiveThreads = {}

(* the position of a thread *)
ThreadPos(t) ==
    IF t[1] = "producer" THEN ppc[t[2]]
    ELSE IF t[1] = "consumer" THEN cpc[t[2]]
    ELSE mpc

AllThreads ==
    {ProducerThread(p) : p \in Producers}
        \cup {ConsumerThread(c) : c \in Consumers} \cup {MainThread}

(* the threads between pthread_mutex_lock(&mutex) and the unlock *)
ThreadsInCS == {t \in AllThreads : ThreadPos(t) = "cs"}

(* C13: acquisition order.  A thread takes its semaphore token before it   *)
(* locks the buffer mutex and unlocks before it posts: the owner of the    *)
(* mutex is past its sem_wait and before its sem_post, the mutex is only   *)
(* locked by a thread that has its token, and the semaphores only change   *)
(* in steps of threads that do not own the mutex.                          *)
C13_AcquisitionOrder ==
    [][/\ \A t \in AllThreads :
            /\ mutex = t => ThreadPos(t) = "cs"
            /\ mutex' = t => ThreadPos(t)' = "cs"
            /\ (mutex # t /\ mutex' = t) =>
                  (ThreadPos(t) = "lock" /\ empty' = empty /\ full' = full)
            /\ (ThreadPos(t) = "sem_wait" /\ ThreadPos(t)' = "lock") =>
                  (mutex # t /\ empty + full = empty' + full' + 1)
            /\ (ThreadPos(t) = "post" /\ ThreadPos(t)' # "post") =>
                  (mutex # t /\ empty + full + 1 = empty' + full')
       /\ (empty' # empty \/ full' # full) => mutex' = mutex]_vars

(* a consumer blocked on full while a producer is in the critical section *)
C13_Witness ==
    \E p \in Producers, c \in Consumers :
        /\ mutex = ProducerThread(p)
        /\ ppc[p] = "cs"
        /\ cpc[c] = "sem_wait"
        /\ full = 0

(* C14: mutual exclusion.  At most one thread is between the lock and the  *)
(* unlock of the buffer mutex, it is the owner, and the buffer changes     *)
(* only in the step in which the owner leaves its critical section.        *)
C14_MutualExclusion ==
    [][/\ ThreadsInCS = (IF mutex = NoThread THEN {} ELSE {mutex})
       /\ ThreadsInCS' = (IF mutex' = NoThread THEN {} ELSE {mutex'})
       /\ buffer' # buffer =>
             /\ \E t \in AllThreads :
                   /\ mutex = t
                   /\ ThreadPos(t) = "cs"
                   /\ ThreadPos(t)' = "post"
             /\ mutex' = NoThread]_vars

(* one thread in the critical section, two more waiting for the mutex *)
C14_Witness ==
    /\ Cardinality(ThreadsInCS) = 1
    /\ Cardinality({t \in AllThreads : ThreadPos(t) = "lock"}) = 2

(* C15: the dequeue step.  On entry count > 0; the item returned is the    *)
(* one at head, the first of the logical order; head advances by one       *)
(* modulo size, count decreases by one, tail and the stored items are      *)
(* unchanged and the remaining items keep their order.                     *)
C15_DequeueStep ==
    [][\A c \in Consumers :
          ConsumerRemoveStep(c) =>
              /\ buffer.count > 0
              /\ citem'[c] = buffer.items[buffer.head]
              /\ citem'[c] = Head(Contents(buffer))
              /\ buffer'.head = (buffer.head + 1) % buffer.size
              /\ buffer'.count = buffer.count - 1
              /\ buffer'.tail = buffer.tail
              /\ buffer'.items = buffer.items
              /\ buffer'.size = buffer.size
              /\ Contents(buffer') = Tail(Contents(buffer))]_vars

(* a removal that wrapped head around, with two items left *)
C15_Witness ==
    \E c \in Consumers :
        /\ cpc[c] = "post"
        /\ buffer.size = 3
        /\ buffer.head = 0
        /\ buffer.count = 2
        /\ citem[c] = buffer.items[2]
        /\ citem[c].seq > 0

(* C16: the statistics lock is independent.  The owner of stats_mutex is   *)
(* inside its statistics update and nowhere else; no thread owns both      *)
(* mutexes; a thread that owns or waits for stats_mutex owns neither the   *)
(* buffer mutex nor a semaphore token.                                     *)
C16_IndependentStatsLock ==
    /\ stats_mutex # NoThread =>
          /\ stats_mutex \in AllThreads
          /\ ThreadPos(stats_mutex) = "stats_cs"
          /\ mutex # stats_mutex
    /\ \A t \in AllThreads :
          ThreadPos(t) \in {"stats_lock", "stats_cs"} =>
              /\ mutex # t
              /\ ThreadPos(t) \notin QueueOpPositions
    /\ \A t \in AllThreads :
          ThreadPos(t) \in {"sem_wait", "lock", "cs", "post"} => stats_mutex # t

(* a producer updates the statistics, a consumer waits for stats_mutex     *)
(* and another producer is in the buffer's critical section                *)
C16_Witness ==
    \E p1, p2 \in Producers, c \in Consumers :
        /\ stats_mutex = ProducerThread(p1)
        /\ cpc[c] = "stats_lock"
        /\ mutex = ProducerThread(p2)

PillsSeen == PillsInBuffer + PillsHeld + poison_pills_consumed

(* C17: sentinels follow producers.  Main is at or past its first          *)
(* insert_item of a poison pill, or a pill exists, only when every         *)
(* producer has terminated and all P*K insertions have returned; every     *)
(* pill in the buffer was inserted after every other item in it.           *)
C17_SentinelsFollowProducers ==
    /\ (mpc \in {"pill_loop", "sem_wait", "lock", "cs", "post",
                 "join_consumers", "done"} \/ PillsSeen > 0) =>
          /\ AllProducersDone
          /\ total_items_produced = num_producers * ITEMS_PER_PRODUCER
          /\ \A p \in Producers : pcount[p] = ITEMS_PER_PRODUCER
    /\ LET c == Contents(buffer)
       IN  \A i, j \in 1..Len(c) :
               (IsPoison(c[i]) /\ ~IsPoison(c[j])) => c[i].seq > c[j].seq

(* main inserts its first pill while items of two producers are queued *)
C17_Witness ==
    /\ mpc = "cs"
    /\ mitem.value = POISON_PILL
    /\ mi = 0
    /\ num_producers = 2
    /\ buffer.count = 2

C19_RingIndexConsistency ==
    mutex = NoThread =>
        /\ 0 <= buffer.head /\ buffer.head < buffer.size
        /\ 0 <= buffer.tail /\ buffer.tail < buffer.size
        /\ (buffer.head + buffer.count) % buffer.size = buffer.tail
        /\ buffer.count =
              full
              + Cardinality({c \in Consumers : cpc[c] \in {"lock", "cs"}})
              + Cardinality({p \in Producers : ppc[p] = "post"})
              + (IF mpc = "post" THEN 1 ELSE 0)

(* the ring wrapped, a consumer holds a token, an inserter has yet to post *)
C19_Witness ==
    /\ mutex = NoThread
    /\ buffer.tail < buffer.head
    /\ full = 0
    /\ buffer.count = 2
    /\ \E c \in Consumers : cpc[c] = "lock"
    /\ \E p \in Producers : ppc[p] = "post"

(* the length of latencies, lines 117-118 *)
LatenciesLength == num_producers * ITEMS_PER_PRODUCER

(* C20: the latency array bound.  latency_count never exceeds P*K, and a   *)
(* consumer about to write latencies[latency_count++] uses an index below  *)
(* the allocated length.                                                   *)
C20_LatencyArrayBound ==
    /\ latency_count <= num_producers * ITEMS_PER_PRODUCER
    /\ \A c \in Consumers :
          (cpc[c] = "stats_cs" /\ citem[c].value # POISON_PILL) =>
              latency_count < LatenciesLength

(* the last slot of the array is about to be written *)
C20_Witness ==
    \E c \in Consumers :
        /\ cpc[c] = "stats_cs"
        /\ citem[c].value # POISON_PILL
        /\ num_producers = 2
        /\ latency_count = LatenciesLength - 1

====
